---- MODULE Spec2Model ----
(***************************************************************************)
(* The agentic sampling loop of the "everything" server                    *)
(* (src/src/everything/tools/trigger-agentic-sampling.ts): one invocation  *)
(* of the trigger-agentic-sampling tool handler, the remote sampling       *)
(* provider it talks to, and the local tool executor.                      *)
(***************************************************************************)
EXTENDS Integers, Sequences, FiniteSets, TLC

(***************************************************************************)
(* Bounds of the model.                                                    *)
(***************************************************************************)
\* Largest value of the maxIterations argument that is explored.
MaxIter == 3
\* Number of content blocks the provider sends, in total, in one invocation.
MaxBlocks == 3

(***************************************************************************)
(* JavaScript values that occur in tool inputs, tagged by their type.      *)
(***************************************************************************)
Num(n) == [t |-> "number", n |-> n, s |-> ""]
Str(s) == [t |-> "string", n |-> 0, s |-> s]
Bool(b) == [t |-> "boolean", n |-> IF b THEN 1 ELSE 0, s |-> ""]
Null == [t |-> "null", n |-> 0, s |-> ""]
Undefined == [t |-> "undefined", n |-> 0, s |-> ""]
NaN == [t |-> "NaN", n |-> 0, s |-> ""]

\* The strings of the model that Number() reads as a number, with their value.
NumericStrings == {<<"", 0>>, <<"2", 2>>}

\* Number(v) of JavaScript.
Number(v) ==
  CASE v.t = "number" -> v
    [] v.t = "NaN" -> NaN
    [] v.t = "boolean" -> Num(v.n)
    [] v.t = "null" -> Num(0)
    [] v.t = "undefined" -> NaN
    [] v.t = "string" ->
         IF \E p \in NumericStrings : p[1] = v.s
         THEN Num((CHOOSE p \in NumericStrings : p[1] = v.s)[2])
         ELSE NaN

\* isNaN(v) for a value that is already a number.
isNaN(v) == v.t = "NaN"

\* String(v) of JavaScript.
String(v) ==
  CASE v.t = "number" -> ToString(v.n)
    [] v.t = "NaN" -> "NaN"
    [] v.t = "boolean" -> IF v.n = 1 THEN "true" ELSE "false"
    [] v.t = "null" -> "null"
    [] v.t = "undefined" -> "undefined"
    [] v.t = "string" -> v.s

\* JSON.stringify of a primitive value that is not undefined.
JSONValue(v) ==
  CASE v.t = "number" -> ToString(v.n)
    [] v.t = "NaN" -> "null"
    [] v.t = "boolean" -> IF v.n = 1 THEN "true" ELSE "false"
    [] v.t = "null" -> "null"
    [] v.t = "string" -> "\"" \o v.s \o "\""
    [] OTHER -> "null"

\* A tool input object: the fields the two tools read; Undefined is a
\* missing field.
Input(m, a, b) == [message |-> m, a |-> a, b |-> b]

InputFields == <<"message", "a", "b">>

FieldOf(input, f) ==
  CASE f = "message" -> input.message
    [] f = "a" -> input.a
    [] f = "b" -> input.b

RECURSIVE JoinWith(_, _)
\* Array.prototype.join: the strings of ss with sep between them.
JoinWith(ss, sep) ==
  IF Len(ss) = 0 THEN ""
  ELSE IF Len(ss) = 1 THEN ss[1]
  ELSE ss[1] \o sep \o JoinWith(Tail(ss), sep)

\* JSON.stringify(toolUse.input): the fields that are present, in order.
JSONStringifyInput(input) ==
  LET present == SelectSeq(InputFields, LAMBDA f : FieldOf(input, f).t # "undefined")
      member(f) == "\"" \o f \o "\":" \o JSONValue(FieldOf(input, f))
  IN "{" \o JoinWith([i \in 1..Len(present) |-> member(present[i])], ",") \o "}"

(***************************************************************************)
(* Content blocks.                                                         *)
(***************************************************************************)
TextContent(text) == [type |-> "text", text |-> text]

ToolUseContent(name, input, id) ==
  [type |-> "tool_use", name |-> name, input |-> input, id |-> id]

ToolResultContent(id, text, isError) ==
  [type |-> "tool_result", toolUseId |-> id,
   content |-> <<TextContent(text)>>, isError |-> isError]

\* The content of a message or of a response is one block or an array of
\* blocks; isArray keeps which.
SingleContent(b) == [isArray |-> FALSE, blocks |-> <<b>>]
ArrayContent(bs) == [isArray |-> TRUE, blocks |-> bs]

\* Array.isArray(c) ? c : [c]
AsArray(c) == IF c.isArray THEN c.blocks ELSE <<c.blocks[1]>>

(***************************************************************************)
(* The tool catalog and the tool filter.                                   *)
(***************************************************************************)
\* Object.keys(AVAILABLE_TOOL_DEFINITIONS), in order.
CatalogKeys == <<"echo", "add">>

\* The properties an object literal inherits from Object.prototype: the
\* in operator of JavaScript finds them as well as the object's own keys.
ObjectPrototypeKeys ==
  {"constructor", "toString", "toLocaleString", "valueOf", "hasOwnProperty",
   "isPrototypeOf", "propertyIsEnumerable", "__proto__"}

\* AVAILABLE_TOOL_DEFINITIONS[name]: the declaration of an own key, the
\* inherited member otherwise.
AVAILABLE_TOOL_DEFINITIONS(name) ==
  CASE name = "echo" ->
         [kind |-> "Tool", name |-> "echo",
          description |-> "Echoes back the input message",
          required |-> <<"message">>]
    [] name = "add" ->
         [kind |-> "Tool", name |-> "add",
          description |-> "Adds two numbers together",
          required |-> <<"a", "b">>]
    [] OTHER ->
         [kind |-> "inherited", name |-> name,
          description |-> "", required |-> <<>>]

\* name is one of the keys the catalog literal defines.
IsCatalogKey(name) == \E i \in 1..Len(CatalogKeys) : CatalogKeys[i] = name

\* name in AVAILABLE_TOOL_DEFINITIONS
InCatalog(name) == IsCatalogKey(name) \/ name \in ObjectPrototypeKeys

\* availableTools.filter(name in ...).map(name => ...[name])
BuildTools(availableTools) ==
  LET kept == SelectSeq(availableTools, InCatalog)
  IN [i \in 1..Len(kept) |-> AVAILABLE_TOOL_DEFINITIONS(kept[i])]

NoValidToolsText ==
  "Error: No valid tools specified. Available tools: " \o JoinWith(CatalogKeys, ", ")

(***************************************************************************)
(* The local tool executor.  The input of a tool_use block is an object,   *)
(* so reading a field of it never throws and the catch branch is not       *)
(* taken.                                                                  *)
(***************************************************************************)
executeToolLocallyNoFlag(toolName, input) ==
  CASE toolName = "echo" ->
         [result |-> String(input.message), isError |-> FALSE]
    [] toolName = "add" ->
         LET a == Number(input.a)
             b == Number(input.b)
         IN IF isNaN(a) \/ isNaN(b)
            THEN [result |-> "Error: Both a and b must be numbers", isError |-> TRUE]
            ELSE [result |-> String(Num(a.n + b.n)), isError |-> FALSE]
    [] OTHER ->
         [result |-> "Unknown tool: " \o toolName, isError |-> FALSE]

executeToolLocally(toolName, input) ==
  CASE toolName = "echo" ->
         [result |-> String(input.message), isError |-> FALSE]
    [] toolName = "add" ->
         LET a == Number(input.a)
             b == Number(input.b)
         IN IF isNaN(a) \/ isNaN(b)
            THEN [result |-> "Error: Both a and b must be numbers", isError |-> TRUE]
            ELSE [result |-> String(Num(a.n + b.n)), isError |-> FALSE]
    [] OTHER ->
         [result |-> "Unknown tool: " \o toolName, isError |-> TRUE]

(***************************************************************************)
(* The pieces of the loop body.                                            *)
(***************************************************************************)
\* The loop condition with the comparison off by one.
LoopConditionInclusive(iteration, maxIterations) == iteration <= maxIterations

\* The condition of a loop that tests after its first pass.
LoopConditionDoWhile(iteration, maxIterations) ==
  iteration = 0 \/ iteration < maxIterations

\* while (iteration < maxIterations)
LoopCondition(iteration, maxIterations) == iteration < maxIterations

\* The tool choice with the last iteration found one iteration late.
ToolChoiceLate(iteration, maxIterations) ==
  IF iteration > maxIterations THEN [mode |-> "none"] ELSE [mode |-> "auto"]

\* isLastIteration ? { mode: "none" } : { mode: "auto" }
ToolChoice(iteration, maxIterations) ==
  IF iteration >= maxIterations THEN [mode |-> "none"] ELSE [mode |-> "auto"]

SystemPrompt ==
  "You are a helpful assistant with access to tools. "
  \o "Use them when needed to answer questions accurately. "
  \o "When you have the final answer, respond with just the answer."

\* The request that carries the two latest messages only.
CreateMessageRequestOfLatest(messages, tools, iteration, maxIterations, maxTokens) ==
  [method |-> "sampling/createMessage",
   messages |-> IF Len(messages) > 2
                THEN SubSeq(messages, Len(messages) - 1, Len(messages))
                ELSE messages,
   tools |-> tools,
   toolChoice |-> ToolChoice(iteration, maxIterations),
   systemPrompt |-> SystemPrompt,
   maxTokens |-> maxTokens]

\* The sampling/createMessage request of one iteration.
CreateMessageRequest(messages, tools, iteration, maxIterations, maxTokens) ==
  [method |-> "sampling/createMessage",
   messages |-> messages,
   tools |-> tools,
   toolChoice |-> ToolChoice(iteration, maxIterations),
   systemPrompt |-> SystemPrompt,
   maxTokens |-> maxTokens]

\* content.filter(block => block.type === "tool_use")
FilterToolUse(content) == SelectSeq(content, LAMBDA b : b.type = "tool_use")

\* The branch taken on the content of the response, whatever its stop reason.
StopsForToolUseByContent(result) ==
  \E i \in 1..Len(result.content.blocks) : result.content.blocks[i].type = "tool_use"

\* result.stopReason === "toolUse"
StopsForToolUse(result) == result.stopReason = "toolUse"

\* The loop without the check for an empty list of tool_use blocks.
NoToolUseBlocksUnchecked(blocks) == FALSE

\* toolUseBlocks.length === 0
NoToolUseBlocks(blocks) == Len(blocks) = 0

NoToolUseText == "Error: Received toolUse stop reason but no tool_use blocks"

\* The assistant turn built from the tool_use blocks alone.
AssistantMessageOfToolUses(content) ==
  [role |-> "assistant", content |-> ArrayContent(FilterToolUse(content))]

\* { role: "assistant", content: content }
AssistantMessage(content) == [role |-> "assistant", content |-> ArrayContent(content)]

\* The log entry with the input interpolated without JSON.stringify.
ToolCallLogEntryPlainInput(toolUse, execResult) ==
  toolUse.name \o "([object Object]) => " \o execResult.result

\* `${toolUse.name}(${JSON.stringify(toolUse.input)}) => ${execResult.result}`
ToolCallLogEntry(toolUse, execResult) ==
  toolUse.name \o "(" \o JSONStringifyInput(toolUse.input) \o ") => " \o execResult.result

\* The tool_result block carrying the tool's name where the identifier
\* belongs.
ToolResultOfName(toolUse, execResult) ==
  ToolResultContent(toolUse.name, execResult.result, execResult.isError)

\* The tool_result block without the error flag of the outcome.
ToolResultOfNoFlag(toolUse, execResult) ==
  ToolResultContent(toolUse.id, execResult.result, FALSE)

\* The tool_result block pushed for one tool_use block.
ToolResultOf(toolUse, execResult) ==
  ToolResultContent(toolUse.id, execResult.result, execResult.isError)

\* The user turn with a line of text before the tool results.
ToolResultsMessageWithText(toolResults) ==
  [role |-> "user", content |-> ArrayContent(<<TextContent("Tool results:")>> \o toolResults)]

\* { role: "user", content: toolResults }
ToolResultsMessage(toolResults) == [role |-> "user", content |-> ArrayContent(toolResults)]

\* JSON.stringify(result.content); the keys of a block in the order of the
\* protocol's schema.
JSONStringifyBlock(b) ==
  CASE b.type = "text" ->
         "{\"type\":\"text\",\"text\":\"" \o b.text \o "\"}"
    [] b.type = "tool_use" ->
         "{\"type\":\"tool_use\",\"name\":\"" \o b.name \o "\",\"id\":\"" \o b.id
         \o "\",\"input\":" \o JSONStringifyInput(b.input) \o "}"

JSONStringifyContent(content) ==
  IF content.isArray
  THEN "[" \o JoinWith([i \in 1..Len(content.blocks) |->
                          JSONStringifyBlock(content.blocks[i])], ",") \o "]"
  ELSE JSONStringifyBlock(content.blocks[1])

\* The final answer read from a response whose stop reason is not toolUse.
FinalResponseOf(resultContent) ==
  LET content == AsArray(resultContent)
      texts == SelectSeq(content, LAMBDA b : b.type = "text")
  IN IF Len(texts) > 0 THEN texts[1].text ELSE JSONStringifyContent(resultContent)

\* `[Reached maximum iterations (${maxIterations}) without final response]`
ReachedMaximumText(maxIterations) ==
  "[Reached maximum iterations (" \o ToString(maxIterations) \o ") without final response]"

\* The limit test with a strict comparison.
LimitReachedStrict(iteration, maxIterations, finalResponse) ==
  iteration > maxIterations /\ finalResponse = ""

\* iteration >= maxIterations && !finalResponse
LimitReached(iteration, maxIterations, finalResponse) ==
  iteration >= maxIterations /\ finalResponse = ""

\* The text returned to the caller.
ResponseText(iteration, toolCallLog, finalResponse) ==
  "Agentic sampling completed in " \o ToString(iteration) \o " iteration(s).\n"
  \o (IF Len(toolCallLog) > 0
      THEN "\nTool calls:\n"
           \o JoinWith([i \in 1..Len(toolCallLog) |-> "  - " \o toolCallLog[i]], "\n")
           \o "\n"
      ELSE "")
  \o "\nFinal response:\n" \o finalResponse

\* The normal return with the text in two blocks.
CallToolResultInTwoBlocks(text) ==
  [content |-> <<TextContent("Agentic sampling completed"), TextContent(text)>>,
   isError |-> FALSE]

\* The CallToolResult of a normal return; isError is absent, hence false.
CallToolResult(text) == [content |-> <<TextContent(text)>>, isError |-> FALSE]

\* The CallToolResult of the configuration error.
NoValidToolsResult == [content |-> <<TextContent(NoValidToolsText)>>, isError |-> TRUE]

(***************************************************************************)
(* What the caller and the provider may send.                              *)
(***************************************************************************)
\* The sequences over S of length at most n.
SeqsUpTo(S, n) == UNION {[1..k -> S] : k \in 0..n}

\* The availableTools lists a caller sends: the default, one catalog name
\* alone, a name repeated around an unknown one, an unknown name alone, a
\* name that Object.prototype defines, and the empty list.
RequestedLists ==
  {<<"echo", "add">>, <<"echo">>, <<"add", "nonexistent", "add">>,
   <<"nonexistent">>, <<"toString">>, <<>>}

\* The arguments after TriggerAgenticSamplingSchema.parse: any number for
\* maxIterations (also zero and below), any list of strings for
\* availableTools.
ArgumentSets ==
  [prompt : {"what is 2+2"},
   maxTokens : {1000},
   maxIterations : (0 - 1)..MaxIter,
   availableTools : RequestedLists]

\* The blocks a provider's response is made of: a text, an empty text, a
\* call of add that succeeds, one whose input is bad, and a call of a tool
\* that does not exist; two of the calls share an identifier.
ProviderBlocks ==
  {TextContent("The answer is 4"),
   TextContent(""),
   ToolUseContent("add", Input(Undefined, Num(2), Num(2)), "call_1"),
   ToolUseContent("add", Input(Undefined, Str("x"), Num(2)), "call_2"),
   ToolUseContent("mul", Input(Undefined, Num(2), Num(2)), "call_1")}

StopReasons == {"toolUse", "endTurn"}

\* The responses of at most n blocks: content is one block or an array.
ProviderResponses(n) ==
  [stopReason : StopReasons,
   content : {ArrayContent(bs) : bs \in SeqsUpTo(ProviderBlocks, n)}
             \cup {SingleContent(b) : b \in IF n > 0 THEN ProviderBlocks ELSE {}}]

(***************************************************************************)
(* The state of one invocation.                                            *)
(***************************************************************************)
VARIABLES
  pc,             \* where the handler is
  args,           \* validatedArgs
  tools,          \* the declarations sent with every request
  messages,       \* the conversation history
  iteration,      \* the iteration counter
  finalResponse,  \* the final answer, "" while unset
  toolCallLog,    \* the audit trail
  toolUseBlocks,  \* the tool_use blocks of the response being handled
  toolResults,    \* the tool_result blocks collected so far
  requests,       \* the requests handed to extra.sendRequest, in order
  responses,      \* the responses the provider gave, in order
  returned,       \* the CallToolResult given to the caller
  peer            \* the locals of a second invocation while this one runs

(***************************************************************************)
(* The state of the resources server and of the client that talks to it.   *)
(***************************************************************************)
VARIABLES
  subscriptions,       \* the Set of subscribed URIs, in insertion order
  subsUpdateInterval,  \* the timer: "set" until cleanup clears it
  notifications,       \* the notifications the server has sent, in order
  lastOperation,       \* per URI, the last of subscribe and unsubscribe handled
  cursor,              \* the nextCursor of the page the client got last
  pages                \* the pages the client got since it listed without cursor

resourceVars ==
  <<subscriptions, subsUpdateInterval, notifications, lastOperation, cursor, pages>>

vars == <<pc, args, tools, messages, iteration, finalResponse, toolCallLog,
          toolUseBlocks, toolResults, requests, responses, returned, peer,
          subscriptions, subsUpdateInterval, notifications, lastOperation, cursor,
          pages>>

\* A string of the cursor kind, as its characters; request.params.cursor
\* when the client passes none.
CursorOf(chars) == [t |-> "string", chars |-> chars]
NoCursor == [t |-> "undefined", chars |-> <<>>]

\* The URIs a client subscribes to: two static resources and a URI the
\* server does not know.
URIs == {"test://static/resource/1", "test://static/resource/2", "test://nowhere"}

\* createServer has returned: no subscription, the timer set, nothing sent;
\* the client has not listed anything.
ResourcesInit ==
  /\ subscriptions = <<>>
  /\ subsUpdateInterval = "set"
  /\ notifications = <<>>
  /\ lastOperation = [u \in URIs |-> "none"]
  /\ cursor = NoCursor
  /\ pages = <<>>

\* Only one invocation has been started.
NoPeer == [pc |-> "none"]

NoResult == [content |-> <<>>, isError |-> FALSE]

\* The tool is registered and a call with arguments from A has arrived; the
\* handler has not run yet.
InitWith(A) ==
  /\ pc = "idle"
  /\ args \in A
  /\ tools = <<>>
  /\ messages = <<>>
  /\ iteration = 0
  /\ finalResponse = ""
  /\ toolCallLog = <<>>
  /\ toolUseBlocks = <<>>
  /\ toolResults = <<>>
  /\ requests = <<>>
  /\ responses = <<>>
  /\ returned = NoResult
  /\ peer = NoPeer
  /\ ResourcesInit

Init == InitWith(ArgumentSets)

\* The number of blocks the provider has sent so far.
RECURSIVE BlocksSent(_)
BlocksSent(rs) ==
  IF rs = <<>> THEN 0 ELSE Len(Head(rs).content.blocks) + BlocksSent(Tail(rs))

\* The handler starts: the tools are filtered; with no tool left it returns
\* the configuration error, otherwise the history is seeded and the loop is
\* entered.
Invoke ==
  /\ pc = "idle"
  /\ tools' = BuildTools(args.availableTools)
  /\ IF Len(BuildTools(args.availableTools)) = 0
     THEN /\ returned' = NoValidToolsResult
          /\ pc' = "done"
          /\ UNCHANGED messages
     ELSE /\ messages' = <<[role |-> "user",
                            content |-> SingleContent(TextContent(args.prompt))]>>
          /\ pc' = "loop"
          /\ UNCHANGED returned
  /\ UNCHANGED <<args, iteration, finalResponse, toolCallLog, toolUseBlocks, toolResults,
                 requests, responses>>
  /\ UNCHANGED <<peer, resourceVars>>

\* The loop condition holds: the counter is incremented and the request of
\* this iteration is sent.
SendRequest ==
  /\ pc = "loop"
  /\ LoopCondition(iteration, args.maxIterations)
  /\ iteration' = iteration + 1
  /\ requests' = Append(requests,
                        CreateMessageRequest(messages, tools, iteration + 1,
                                             args.maxIterations, args.maxTokens))
  /\ pc' = "awaiting"
  /\ UNCHANGED <<args, tools, messages, finalResponse, toolCallLog, toolUseBlocks,
                 toolResults, responses, returned>>
  /\ UNCHANGED <<peer, resourceVars>>

\* The loop condition fails: control leaves the loop.
LeaveLoop ==
  /\ pc = "loop"
  /\ ~LoopCondition(iteration, args.maxIterations)
  /\ pc' = "afterLoop"
  /\ UNCHANGED <<args, tools, messages, iteration, finalResponse, toolCallLog,
                 toolUseBlocks, toolResults, requests, responses, returned>>
  /\ UNCHANGED <<peer, resourceVars>>

\* The provider answers the outstanding request.  A toolUse response with
\* tool_use blocks is appended and its tools are run next; one without them
\* and any other response set the final answer and break out of the loop.
ReceiveFrom(choices) ==
  /\ pc = "awaiting"
  /\ \E result \in choices :
       /\ responses' = Append(responses, result)
       /\ IF StopsForToolUse(result)
          THEN LET content == AsArray(result.content)
                   blocks == FilterToolUse(content)
               IN IF NoToolUseBlocks(blocks)
                  THEN /\ finalResponse' = NoToolUseText
                       /\ pc' = "afterLoop"
                       /\ UNCHANGED <<messages, toolUseBlocks, toolResults>>
                  ELSE /\ messages' = Append(messages, AssistantMessage(content))
                       /\ toolUseBlocks' = blocks
                       /\ toolResults' = <<>>
                       /\ pc' = "executing"
                       /\ UNCHANGED finalResponse
          ELSE /\ finalResponse' = FinalResponseOf(result.content)
               /\ pc' = "afterLoop"
               /\ UNCHANGED <<messages, toolUseBlocks, toolResults>>
  /\ UNCHANGED <<args, tools, iteration, toolCallLog, requests, returned>>
  /\ UNCHANGED <<peer, resourceVars>>

\* The provider answers with any response its budget of blocks allows.
ReceiveResponse == ReceiveFrom(ProviderResponses(MaxBlocks - BlocksSent(responses)))

\* The rejection caught and taken for the end of the loop.
ChannelRejectsSwallowed ==
  /\ pc = "awaiting"
  /\ pc' = "afterLoop"
  /\ UNCHANGED <<args, tools, messages, iteration, finalResponse, toolCallLog,
                 toolUseBlocks, toolResults, requests, responses, returned>>
  /\ UNCHANGED <<peer, resourceVars>>

\* The outstanding request rejects: the exception leaves the handler.
ChannelRejects ==
  /\ pc = "awaiting"
  /\ pc' = "failed"
  /\ UNCHANGED <<args, tools, messages, iteration, finalResponse, toolCallLog,
                 toolUseBlocks, toolResults, requests, responses, returned>>
  /\ UNCHANGED <<peer, resourceVars>>

\* The for loop run from the last tool_use block to the first.
ExecuteToolLastFirst ==
  /\ pc = "executing"
  /\ Len(toolResults) < Len(toolUseBlocks)
  /\ LET toolUse == toolUseBlocks[Len(toolUseBlocks) - Len(toolResults)]
         execResult == executeToolLocally(toolUse.name, toolUse.input)
     IN /\ toolCallLog' = Append(toolCallLog, ToolCallLogEntry(toolUse, execResult))
        /\ toolResults' = Append(toolResults, ToolResultOf(toolUse, execResult))
  /\ UNCHANGED <<pc, args, tools, messages, iteration, finalResponse, toolUseBlocks,
                 requests, responses, returned>>
  /\ UNCHANGED <<peer, resourceVars>>

\* One pass of the for loop: the next tool_use block is executed, logged
\* and answered.
ExecuteTool ==
  /\ pc = "executing"
  /\ Len(toolResults) < Len(toolUseBlocks)
  /\ LET toolUse == toolUseBlocks[Len(toolResults) + 1]
         execResult == executeToolLocally(toolUse.name, toolUse.input)
     IN /\ toolCallLog' = Append(toolCallLog, ToolCallLogEntry(toolUse, execResult))
        /\ toolResults' = Append(toolResults, ToolResultOf(toolUse, execResult))
  /\ UNCHANGED <<pc, args, tools, messages, iteration, finalResponse, toolUseBlocks,
                 requests, responses, returned>>
  /\ UNCHANGED <<peer, resourceVars>>

\* The for loop is over: the tool results go to the history as one user
\* message and the while loop comes round again.
AppendToolResults ==
  /\ pc = "executing"
  /\ Len(toolResults) = Len(toolUseBlocks)
  /\ messages' = Append(messages, ToolResultsMessage(toolResults))
  /\ pc' = "loop"
  /\ UNCHANGED <<args, tools, iteration, finalResponse, toolCallLog, toolUseBlocks,
                 toolResults, requests, responses, returned>>
  /\ UNCHANGED <<peer, resourceVars>>

\* After the loop: the placeholder when the limit was reached without a
\* final answer, then the response text is built and returned.
Return ==
  /\ pc = "afterLoop"
  /\ LET final == IF LimitReached(iteration, args.maxIterations, finalResponse)
                  THEN ReachedMaximumText(args.maxIterations)
                  ELSE finalResponse
     IN /\ finalResponse' = final
        /\ returned' = CallToolResult(ResponseText(iteration, toolCallLog, final))
  /\ pc' = "done"
  /\ UNCHANGED <<args, tools, messages, iteration, toolCallLog, toolUseBlocks,
                 toolResults, requests, responses>>
  /\ UNCHANGED <<peer, resourceVars>>

Next ==
  \/ Invoke
  \/ SendRequest
  \/ LeaveLoop
  \/ ReceiveResponse
  \/ ChannelRejects
  \/ ExecuteTool
  \/ AppendToolResults
  \/ Return

Spec == Init /\ [][Next]_vars

\* The handler has ended: it returned, or the rejection left it.
Ended == pc \in {"done", "failed"}

\* The calls of the fair specification: every iteration bound, with the
\* default tool list and with a list that leaves no tool.
FairArgumentSets ==
  {a \in ArgumentSets : a.availableTools \in {<<"echo", "add">>, <<"nonexistent">>}}

\* The scheduling of the handler and of the channel: a step of the handler
\* that can be taken is taken, and every round trip returns or rejects.
FairSpec == InitWith(FairArgumentSets) /\ [][Next]_vars /\ WF_vars(Next)

(***************************************************************************)
(* Notions the properties share.                                           *)
(***************************************************************************)
\* The iteration bound of the invocation.
N == args.maxIterations

\* The tool_use blocks of a response.
ToolUsesOf(response) == FilterToolUse(AsArray(response.content))

\* The response asks for tools: stop reason toolUse with a tool_use block.
AsksForTools(response) ==
  response.stopReason = "toolUse" /\ Len(ToolUsesOf(response)) > 0

\* The response has stop reason toolUse and no tool_use block.
ViolatesProtocol(response) ==
  response.stopReason = "toolUse" /\ Len(ToolUsesOf(response)) = 0

\* The number of tool_use blocks in the responses that asked for tools.
RECURSIVE ToolUsesRequested(_)
ToolUsesRequested(rs) ==
  IF rs = <<>> THEN 0
  ELSE (IF AsksForTools(Head(rs)) THEN Len(ToolUsesOf(Head(rs))) ELSE 0)
       + ToolUsesRequested(Tail(rs))

\* The response text the caller gets on a normal return.
ReturnedText == returned.content[1].text

C2_EndsWithOneText ==
  /\ <>Ended
  /\ [](pc = "failed" => returned = NoResult /\ Len(requests) = Len(responses) + 1)
  /\ [](pc = "done" => /\ Len(returned.content) = 1
                       /\ returned.content[1].type = "text"
                       /\ Len(requests) = Len(responses))

\* A normal return after two round trips, the second one ending the loop.
C2_Witness ==
  /\ pc = "done"
  /\ Len(responses) = 2
  /\ Len(returned.content) = 1
  /\ returned.content[1].type = "text"

C4_ProtocolViolationEndsLoop ==
  \A j \in 1..Len(responses) : ViolatesProtocol(responses[j]) =>
     /\ j = Len(responses)
     /\ pc \in {"afterLoop", "done"}
     /\ finalResponse = "Error: Received toolUse stop reason but no tool_use blocks"
     /\ Len(requests) = j
     /\ Len(messages) = 2 * (j - 1) + 1
     /\ Len(toolCallLog) = ToolUsesRequested(SubSeq(responses, 1, j - 1))
     /\ pc = "done" => ReturnedText = ResponseText(j, toolCallLog, NoToolUseText)

\* The protocol violation on the last permitted iteration, after a round
\* trip that ran a tool.
C4_Witness ==
  /\ pc = "done"
  /\ N = 2
  /\ Len(responses) = 2
  /\ ViolatesProtocol(responses[2])
  /\ Len(toolCallLog) > 0

(***************************************************************************)
(* C5: for every response that asks for k >= 1 tools a user turn is        *)
(* appended once the tools have run; it has exactly k tool_result blocks   *)
(* and the i-th carries the identifier of the i-th tool_use block.         *)
(***************************************************************************)
C5_OneResultPerToolUse ==
  \A j \in 1..Len(responses) : AsksForTools(responses[j]) =>
     LET uses == ToolUsesOf(responses[j])
     IN /\ (j < Len(responses) \/ pc # "executing") => Len(messages) >= 2 * j + 1
        /\ Len(messages) >= 2 * j + 1 =>
             LET results == messages[2 * j + 1].content.blocks
             IN /\ messages[2 * j + 1].role = "user"
                /\ Len(results) = Len(uses)
                /\ \A i \in 1..Len(uses) :
                     /\ results[i].type = "tool_result"
                     /\ results[i].toolUseId = uses[i].id

\* A response with two tool_use blocks of different identifiers among
\* other blocks, answered in the history.
C5_Witness ==
  /\ Len(messages) >= 3
  /\ Len(ToolUsesOf(responses[1])) = 2
  /\ ToolUsesOf(responses[1])[1].id # ToolUsesOf(responses[1])[2].id
  /\ Len(responses[1].content.blocks) = 3

(***************************************************************************)
(* C6: a turn of the history that holds a tool_result block holds only     *)
(* tool_result blocks, and every user turn after the seed turn consists of *)
(* tool_result blocks alone.                                               *)
(***************************************************************************)
C6_ToolResultTurnsArePure ==
  \A j \in 1..Len(messages) :
     LET blocks == messages[j].content.blocks
         pure == \A i \in 1..Len(blocks) : blocks[i].type = "tool_result"
     IN /\ (\E i \in 1..Len(blocks) : blocks[i].type = "tool_result") => pure
        /\ (j > 1 /\ messages[j].role = "user") => pure /\ Len(blocks) > 0

\* A history whose third turn is a user turn with two tool results.
C6_Witness ==
  /\ Len(messages) >= 3
  /\ messages[3].role = "user"
  /\ Len(messages[3].content.blocks) = 2

(***************************************************************************)
(* C7: every assistant turn of the history holds the blocks of the         *)
(* response that produced it, all of them and in the same order.           *)
(***************************************************************************)
C7_AssistantTurnIsVerbatim ==
  \A j \in 1..Len(messages) : messages[j].role = "assistant" =>
     /\ j % 2 = 0
     /\ j \div 2 <= Len(responses)
     /\ messages[j].content.blocks = responses[j \div 2].content.blocks

\* An assistant turn made of a text block, a tool_use block and a second
\* text block.
C7_Witness ==
  /\ Len(messages) >= 2
  /\ messages[2].role = "assistant"
  /\ Len(messages[2].content.blocks) = 3
  /\ messages[2].content.blocks[1].type = "text"
  /\ messages[2].content.blocks[2].type = "tool_use"
  /\ messages[2].content.blocks[3].type = "text"

(***************************************************************************)
(* C8: when no requested name is a tool of the catalog, the invocation     *)
(* returns an error result and sends no request.                           *)
(***************************************************************************)
C8_NoKnownToolNoRoundTrip ==
  (\A i \in 1..Len(args.availableTools) : ~IsCatalogKey(args.availableTools[i])) =>
     /\ Len(requests) = 0
     /\ Ended => pc = "done" /\ returned.isError

\* What the code does ensure: with an empty filtered list the handler returns
\* the configuration error and never enters the loop.
EmptyFilterIsConfigurationError ==
  (pc # "idle" /\ Len(tools) = 0) =>
     pc = "done" /\ returned = NoValidToolsResult /\ Len(requests) = 0

(***************************************************************************)
(* C9: the declarations sent to the provider are exactly the declarations  *)
(* of the requested names that are keys of the catalog (echo, add); any    *)
(* other requested name contributes nothing.                               *)
(***************************************************************************)
C9_DeclarationsAreRequestedCatalogKeys ==
  pc # "idle" =>
     {tools[i] : i \in 1..Len(tools)} =
       {AVAILABLE_TOOL_DEFINITIONS(args.availableTools[i]) :
          i \in {k \in 1..Len(args.availableTools) : IsCatalogKey(args.availableTools[k])}}

C11_FinalAnswerIsFirstText ==
  \A j \in 1..Len(responses) : responses[j].stopReason # "toolUse" =>
     LET content == AsArray(responses[j].content)
         texts == SelectSeq(content, LAMBDA b : b.type = "text")
         answer == IF Len(texts) > 0 THEN texts[1].text
                   ELSE JSONStringifyContent(responses[j].content)
     IN /\ j = Len(responses)
        /\ pc \in {"afterLoop", "done"}
        /\ Len(requests) = j
        /\ pc = "done" =>
             /\ finalResponse = answer
             /\ ReturnedText = ResponseText(j, toolCallLog, answer)

\* What the code does ensure: the same, except that an empty first text on
\* the last permitted iteration is replaced by the iteration-limit text.
FinalAnswerUnlessEmptyOnLast ==
  \A j \in 1..Len(responses) : responses[j].stopReason # "toolUse" =>
     LET answer == FinalResponseOf(responses[j].content)
     IN /\ j = Len(responses)
        /\ pc \in {"afterLoop", "done"}
        /\ Len(requests) = j
        /\ pc = "done" =>
             finalResponse = IF answer = "" /\ j >= N THEN ReachedMaximumText(N)
                             ELSE answer

(***************************************************************************)
(* C12: a tool call that fails (bad input, unknown tool) does not end the  *)
(* loop: its outcome, with isError = true, is appended to the history as a *)
(* tool_result, and while the iteration counter is below the bound the     *)
(* next request is sent, carrying that result.                             *)
(***************************************************************************)
\* The call cannot succeed: the tool is not one of the two the executor
\* knows, or an argument of add is missing or is no number.
FailsToExecute(toolUse) ==
  \/ toolUse.name \notin {"echo", "add"}
  \/ /\ toolUse.name = "add"
     /\ \E v \in {toolUse.input.a, toolUse.input.b} :
          \/ v.t = "undefined"
          \/ v.t = "string" /\ v.s \notin {"", "2"}

\* The text of the outcome of a call that fails.
FailureText(toolUse) ==
  IF toolUse.name = "add" THEN "Error: Both a and b must be numbers"
  ELSE "Unknown tool: " \o toolUse.name

C13_RejectionFailsInvocation ==
  /\ Len(requests) \in {Len(responses), Len(responses) + 1}
  /\ (Len(requests) = Len(responses) + 1 /\ pc # "awaiting") =>
        pc = "failed" /\ returned = NoResult
  /\ pc = "failed" =>
        /\ Len(requests) = Len(responses) + 1
        /\ Len(requests) = iteration
        /\ returned = NoResult
        /\ ~ENABLED Next

\* The second round trip rejects, after a first one that ran a tool.
C13_Witness ==
  /\ pc = "failed"
  /\ Len(requests) = 2
  /\ Len(responses) = 1
  /\ Len(toolCallLog) > 0

(***************************************************************************)
(* C14: on every normal return the reported iteration count is the number  *)
(* of requests sent, and the audit trail has exactly one entry             *)
(* "name(serialized input) => result" for each tool_use block executed, in *)
(* the order of the round trips and, within one, of the blocks.            *)
(***************************************************************************)
\* The audit entry of each tool call the provider of the model can ask for.
AuditEntryOf(toolUse) ==
  CASE toolUse.name = "add" /\ toolUse.input.a = Num(2) ->
         "add({\"a\":2,\"b\":2}) => 4"
    [] toolUse.name = "add" /\ toolUse.input.a = Str("x") ->
         "add({\"a\":\"x\",\"b\":2}) => Error: Both a and b must be numbers"
    [] toolUse.name = "mul" ->
         "mul({\"a\":2,\"b\":2}) => Unknown tool: mul"

\* The audit entries of the responses that asked for tools, in order.
RECURSIVE AuditTrailOf(_)
AuditTrailOf(rs) ==
  IF rs = <<>> THEN <<>>
  ELSE (IF AsksForTools(Head(rs))
        THEN [i \in 1..Len(ToolUsesOf(Head(rs))) |-> AuditEntryOf(ToolUsesOf(Head(rs))[i])]
        ELSE <<>>)
       \o AuditTrailOf(Tail(rs))

C14_CountAndAuditTrail ==
  (pc = "done" /\ ~returned.isError) =>
     /\ iteration = Len(requests)
     /\ toolCallLog = AuditTrailOf(responses)
     /\ ReturnedText =
          ResponseText(Len(requests), AuditTrailOf(responses), finalResponse)
     /\ (/\ Len(responses) = 2
         /\ responses[1].content =
              SingleContent(ToolUseContent("add", Input(Undefined, Num(2), Num(2)), "call_1"))
         /\ responses[1].stopReason = "toolUse"
         /\ responses[2].content = SingleContent(TextContent("The answer is 4"))
         /\ responses[2].stopReason = "endTurn")
        => ReturnedText =
             "Agentic sampling completed in 2 iteration(s).\n"
             \o "\nTool calls:\n  - add({\"a\":2,\"b\":2}) => 4\n"
             \o "\nFinal response:\nThe answer is 4"

\* The example of the specification: add({a:2,b:2}) on the first round
\* trip, the answer on the second.
C14_Witness ==
  /\ pc = "done"
  /\ iteration = 2
  /\ toolCallLog = <<"add({\"a\":2,\"b\":2}) => 4">>
  /\ finalResponse = "The answer is 4"

\* Two round trips with one tool call each before the final one: two
\* different entries, in the order of the round trips.
C14_WitnessOrder ==
  /\ pc = "done"
  /\ Len(responses) = 3
  /\ Len(toolCallLog) = 2
  /\ toolCallLog[1] # toolCallLog[2]

(***************************************************************************)
(* C15: when the first response has a stop reason other than toolUse,      *)
(* exactly one round trip is made, no tool is executed and the audit trail *)
(* is empty.                                                               *)
(***************************************************************************)
C15_FirstFinalResponseOneRoundTrip ==
  (Len(responses) >= 1 /\ responses[1].stopReason # "toolUse") =>
     /\ Len(responses) = 1
     /\ Len(requests) = 1
     /\ iteration = 1
     /\ toolCallLog = <<>>
     /\ toolResults = <<>>
     /\ Len(messages) = 1
     /\ pc \in {"afterLoop", "done"}
     /\ pc = "done" =>
          ReturnedText = "Agentic sampling completed in 1 iteration(s).\n"
                         \o "\nFinal response:\n" \o finalResponse

\* With N = 3, a first response endTurn that still carries a tool_use
\* block: the handler has returned after the one round trip.
C15_Witness ==
  /\ pc = "done"
  /\ N = 3
  /\ Len(requests) = 1
  /\ responses[1].stopReason = "endTurn"
  /\ Len(ToolUsesOf(responses[1])) > 0
  /\ toolCallLog = <<>>

(***************************************************************************)
(* The executor on every kind of input.  The provider chooses the name and *)
(* the input of a tool_use block freely, so this specification starts      *)
(* where the first response, a toolUse response of one tool_use block, has *)
(* just been appended to the history, and runs the handler on from there.  *)
(***************************************************************************)
ExecNames == {"echo", "add", "mul", "toString", "nonexistent"}

\* A number, strings that Number() does and does not read, null, the
\* booleans, and a missing field.
ExecValues ==
  {Num(2), Str("x"), Str("2"), Str(""), Null, Bool(TRUE), Bool(FALSE), Undefined}

ExecToolUses ==
  {ToolUseContent(n, Input(m, a, b), "call_1") :
     n \in ExecNames, m \in {Undefined, Str("hi")}, a \in ExecValues, b \in ExecValues}

ExecArgumentSets ==
  {a \in ArgumentSets : /\ a.maxIterations \in {1, 2}
                        /\ a.availableTools \in {<<"echo", "add">>, <<"echo">>}}

ExecInit ==
  \E toolUse \in ExecToolUses :
    LET seed == <<[role |-> "user",
                   content |-> SingleContent(TextContent(args.prompt))]>>
    IN /\ pc = "executing"
       /\ args \in ExecArgumentSets
       /\ tools = BuildTools(args.availableTools)
       /\ iteration = 1
       /\ requests = <<CreateMessageRequest(seed, tools, 1, args.maxIterations,
                                            args.maxTokens)>>
       /\ responses = <<[stopReason |-> "toolUse",
                         content |-> ArrayContent(<<toolUse>>)]>>
       /\ messages = Append(seed, AssistantMessage(<<toolUse>>))
       /\ toolUseBlocks = <<toolUse>>
       /\ toolResults = <<>>
       /\ toolCallLog = <<>>
       /\ finalResponse = ""
       /\ returned = NoResult
       /\ peer = NoPeer
       /\ ResourcesInit

\* The handler from there on; the second round trip stays outstanding.
ExecNext ==
  \/ ExecuteTool
  \/ AppendToolResults
  \/ SendRequest
  \/ LeaveLoop
  \/ Return

SpecExec == ExecInit /\ [][ExecNext]_vars

\* The i-th tool call of the turn has been executed and it was a call of
\* add whose a or b is not a number.
AddOfNonNumber(i) ==
  /\ i \in 1..Len(toolResults)
  /\ toolUseBlocks[i].name = "add"
  /\ toolUseBlocks[i].input.a.t # "number" \/ toolUseBlocks[i].input.b.t # "number"

(***************************************************************************)
(* C16: for every input of add in which a or b is not a number (a string,  *)
(* null, a boolean, a missing field), the executor returns isError = true  *)
(* with 'Error: Both a and b must be numbers', and never a success 'NaN'.  *)
(***************************************************************************)
C16_AddRejectsNonNumbers ==
  \A i \in 1..Len(toolResults) :
    AddOfNonNumber(i) =>
      toolResults[i] = ToolResultContent(toolUseBlocks[i].id,
                         "Error: Both a and b must be numbers", TRUE)

\* What the code does instead: add rejects exactly the inputs that Number()
\* turns into NaN, and so never answers 'NaN'; null, the booleans and the
\* strings Number() reads are added as numbers.
AddRejectsWhatNumberRejects ==
  \A i \in 1..Len(toolResults) :
    toolUseBlocks[i].name = "add" =>
      LET a == Number(toolUseBlocks[i].input.a)
          b == Number(toolUseBlocks[i].input.b)
      IN /\ toolResults[i].content # <<TextContent("NaN")>>
         /\ toolResults[i].isError <=> (isNaN(a) \/ isNaN(b))
         /\ toolResults[i].isError =>
              toolResults[i].content =
                <<TextContent("Error: Both a and b must be numbers")>>
         /\ ~toolResults[i].isError =>
              toolResults[i].content = <<TextContent(ToString(a.n + b.n))>>

(***************************************************************************)
(* C17: for every tool name that is not a name of the catalog the executor *)
(* returns isError = true with a content that names the unknown tool, and  *)
(* the loop appends that result to the history and goes on.                *)
(***************************************************************************)
C17_UnknownToolIsErrorAndLoopGoesOn ==
  \A i \in 1..Len(toolResults) :
    ~IsCatalogKey(toolUseBlocks[i].name) =>
      /\ toolResults[i] = ToolResultContent(toolUseBlocks[i].id,
                            "Unknown tool: " \o toolUseBlocks[i].name, TRUE)
      /\ pc # "failed"
      /\ pc # "executing" =>
           /\ Len(messages) = 3
           /\ messages[3] = [role |-> "user", content |-> ArrayContent(toolResults)]
      /\ (pc = "loop" /\ iteration < N) => ENABLED SendRequest
      /\ Len(requests) = 2 => requests[2].messages = messages

\* The provider called toString, a name the catalog does not define; its
\* error result is in the history of the second request.
C17_Witness ==
  /\ Len(requests) = 2
  /\ toolUseBlocks[1].name = "toString"
  /\ requests[2].messages[3].content.blocks[1].isError
  /\ requests[2].messages[3].content.blocks[1].content =
       <<TextContent("Unknown tool: toString")>>

(***************************************************************************)
(* C20: the tool declarations sent to the provider never hold two          *)
(* declarations of the same name, whatever the list of requested names,    *)
(* lists that repeat a name included.                                      *)
(***************************************************************************)
C20_DeclarationNamesAreUnique ==
  \A r \in 1..Len(requests) :
    \A i, j \in 1..Len(requests[r].tools) :
      i # j => requests[r].tools[i].name # requests[r].tools[j].name

\* What the code keeps instead: one declaration per requested name that the
\* in-test accepts, in the order of the request, repetitions included.
DeclarationsFollowRequestedList ==
  \A r \in 1..Len(requests) :
    LET kept == SelectSeq(args.availableTools, InCatalog)
    IN /\ Len(requests[r].tools) = Len(kept)
       /\ \A i \in 1..Len(kept) : requests[r].tools[i].name = kept[i]

\* The round trips that have been sent and have neither returned nor
\* rejected.
Outstanding == Len(requests) - Len(responses)

\* The first k tool calls of the turn, and no other, have their results,
\* in the order of the request.
ResultsAreOfFirst(k, results, blocks) ==
  /\ Len(results) = k
  /\ k <= Len(blocks)
  /\ \A i \in 1..k :
       results[i] = ToolResultOf(blocks[i],
                                 executeToolLocally(blocks[i].name, blocks[i].input))

\* No round trip is outstanding while tools run, and never more than one.
C19_OneThingAtATime ==
  /\ Outstanding \in {0, 1}
  /\ Outstanding = 1 <=> pc \in {"awaiting", "failed"}
  /\ pc = "executing" =>
       /\ Outstanding = 0
       /\ toolUseBlocks = ToolUsesOf(responses[Len(responses)])
       /\ ResultsAreOfFirst(Len(toolResults), toolResults, toolUseBlocks)

\* Request i+1 was sent with a history whose message 2i+1 holds the result
\* of every tool call of response i.
C19_NextRoundTripAfterAllResults ==
  \A i \in 1..(Len(requests) - 1) :
    LET asked == ToolUsesOf(responses[i])
        history == requests[i + 1].messages
    IN /\ AsksForTools(responses[i])
       /\ Len(history) = 2 * i + 1
       /\ history[2 * i + 1].role = "user"
       /\ ResultsAreOfFirst(Len(asked), history[2 * i + 1].content.blocks, asked)

\* A step runs at most one tool, or sends at most one request and then
\* only with every result of the turn in the history.
C19_OneStep ==
  /\ Len(toolCallLog') <= Len(toolCallLog) + 1
  /\ Len(requests') <= Len(requests) + 1
  /\ Len(toolCallLog') # Len(toolCallLog) => requests' = requests
  /\ requests' # requests =>
       /\ Outstanding = 0
       /\ Len(requests) > 0 =>
            /\ messages[Len(messages)] = ToolResultsMessage(toolResults)
            /\ Len(toolResults) = Len(toolUseBlocks)

(***************************************************************************)
(* C19: within one invocation at most one round trip is outstanding at any *)
(* time, the tool calls of a turn are executed one at a time in the order  *)
(* of the request, and round trip i+1 is sent only after every tool call   *)
(* of response i has completed and its result is in the history.           *)
(***************************************************************************)
C19_StrictlySequential ==
  /\ [](C19_OneThingAtATime /\ C19_NextRoundTripAfterAllResults)
  /\ [][C19_OneStep]_vars

\* The second round trip is outstanding; the first response asked for two
\* tools with different identifiers and both results, in that order, are in
\* the history that was sent.
C19_Witness ==
  /\ pc = "awaiting"
  /\ Len(requests) = 2
  /\ Len(ToolUsesOf(responses[1])) = 2
  /\ ToolUsesOf(responses[1])[1].id # ToolUsesOf(responses[1])[2].id
  /\ requests[2].messages[3].content.blocks[1].toolUseId = ToolUsesOf(responses[1])[1].id
  /\ requests[2].messages[3].content.blocks[2].toolUseId = ToolUsesOf(responses[1])[2].id

(***************************************************************************)
(* Two invocations.  The handler runs one invocation at a time; while that *)
(* one waits for its round trip, or once it has ended, the other may be    *)
(* started or resumed.  What the handler declares inside its body belongs  *)
(* to the invocation and goes with it; what the module declares stays.     *)
(***************************************************************************)
\* The audit trail declared beside the catalog, not in the handler.
InvocationLocalButLog ==
  {"pc", "args", "tools", "messages", "iteration", "finalResponse",
   "toolUseBlocks", "toolResults", "requests", "responses", "returned"}

\* The arguments, tools, messages, iteration, finalResponse, toolCallLog,
\* and the loop's locals are declared in the handler's body; its position,
\* its requests and its result are its own as well.
InvocationLocal ==
  {"pc", "args", "tools", "messages", "iteration", "finalResponse", "toolCallLog",
   "toolUseBlocks", "toolResults", "requests", "responses", "returned"}

\* The value the other invocation finds in a variable.
FoundBy(name, here, theirs) == IF name \in InvocationLocal THEN theirs ELSE here

\* The locals of the running invocation.
Frame ==
  [pc |-> pc, args |-> args, tools |-> tools, messages |-> messages,
   iteration |-> iteration, finalResponse |-> finalResponse,
   toolCallLog |-> toolCallLog, toolUseBlocks |-> toolUseBlocks,
   toolResults |-> toolResults, requests |-> requests, responses |-> responses,
   returned |-> returned]

\* The running invocation is suspended on its round trip or has ended; the
\* other one is started or resumed.
Switch ==
  /\ peer # NoPeer
  /\ pc \in {"awaiting", "done", "failed"}
  /\ peer' = Frame
  /\ pc' = FoundBy("pc", pc, peer.pc)
  /\ args' = FoundBy("args", args, peer.args)
  /\ tools' = FoundBy("tools", tools, peer.tools)
  /\ messages' = FoundBy("messages", messages, peer.messages)
  /\ iteration' = FoundBy("iteration", iteration, peer.iteration)
  /\ finalResponse' = FoundBy("finalResponse", finalResponse, peer.finalResponse)
  /\ toolCallLog' = FoundBy("toolCallLog", toolCallLog, peer.toolCallLog)
  /\ toolUseBlocks' = FoundBy("toolUseBlocks", toolUseBlocks, peer.toolUseBlocks)
  /\ toolResults' = FoundBy("toolResults", toolResults, peer.toolResults)
  /\ requests' = FoundBy("requests", requests, peer.requests)
  /\ responses' = FoundBy("responses", responses, peer.responses)
  /\ returned' = FoundBy("returned", returned, peer.returned)
  /\ UNCHANGED resourceVars

\* The two calls: different prompts, one or two iterations each.
TwoPrompts == <<"what is 2+2", "what is 3+3">>

TwoArgumentSets(k) ==
  [prompt : {TwoPrompts[k]},
   maxTokens : {1000},
   maxIterations : {1, 2},
   availableTools : {<<"echo", "add">>}]

\* What the provider answers to either invocation: one tool call, two tool
\* calls of which both fail, or a final text.
TwoResponses ==
  {[stopReason |-> "toolUse",
    content |-> ArrayContent(<<ToolUseContent("add", Input(Undefined, Num(2), Num(2)),
                                              "call_1")>>)],
   [stopReason |-> "toolUse",
    content |-> ArrayContent(<<ToolUseContent("add", Input(Undefined, Str("x"), Num(2)),
                                              "call_2"),
                               ToolUseContent("mul", Input(Undefined, Num(2), Num(2)),
                                              "call_1")>>)],
   [stopReason |-> "endTurn",
    content |-> SingleContent(TextContent("The answer is 4"))]}

\* Both calls have arrived; neither handler has run.
TwoInit ==
  /\ pc = "idle"
  /\ args \in TwoArgumentSets(1)
  /\ tools = <<>>
  /\ messages = <<>>
  /\ iteration = 0
  /\ finalResponse = ""
  /\ toolCallLog = <<>>
  /\ toolUseBlocks = <<>>
  /\ toolResults = <<>>
  /\ requests = <<>>
  /\ responses = <<>>
  /\ returned = NoResult
  /\ peer \in [pc : {"idle"}, args : TwoArgumentSets(2), tools : {<<>>},
                messages : {<<>>}, iteration : {0}, finalResponse : {""},
                toolCallLog : {<<>>}, toolUseBlocks : {<<>>}, toolResults : {<<>>},
                requests : {<<>>}, responses : {<<>>}, returned : {NoResult}]
  /\ ResourcesInit

TwoReceiveResponse == ReceiveFrom(TwoResponses)

TwoNext ==
  \/ Invoke
  \/ SendRequest
  \/ LeaveLoop
  \/ TwoReceiveResponse
  \/ ChannelRejects
  \/ ExecuteTool
  \/ AppendToolResults
  \/ Return
  \/ Switch

SpecTwo == TwoInit /\ [][TwoNext]_vars

\* The tool results and the audit entries of the tool calls of one turn.
ResultsOf(blocks) ==
  [i \in 1..Len(blocks) |->
     ToolResultOf(blocks[i], executeToolLocally(blocks[i].name, blocks[i].input))]

EntriesOf(blocks) ==
  [i \in 1..Len(blocks) |->
     ToolCallLogEntry(blocks[i], executeToolLocally(blocks[i].name, blocks[i].input))]

\* What the handler has when it returns with final answer final.
AloneReturns(a, msgs, it, log, final) ==
  LET answer == IF LimitReached(it, a.maxIterations, final)
                THEN ReachedMaximumText(a.maxIterations)
                ELSE final
  IN [messages |-> msgs, iteration |-> it, toolCallLog |-> log,
      returned |-> CallToolResult(ResponseText(it, log, answer))]

\* The while loop of one invocation that runs alone and is given the
\* responses rs: what it has when it returns, or when it waits for the
\* response that comes after rs.
RECURSIVE LoopAlone(_, _, _, _, _)
LoopAlone(a, rs, msgs, it, log) ==
  IF ~LoopCondition(it, a.maxIterations)
  THEN AloneReturns(a, msgs, it, log, "")
  ELSE IF rs = <<>>
  THEN [messages |-> msgs, iteration |-> it + 1, toolCallLog |-> log,
        returned |-> NoResult]
  ELSE LET result == Head(rs)
           content == AsArray(result.content)
           blocks == FilterToolUse(content)
       IN IF ~StopsForToolUse(result)
          THEN AloneReturns(a, msgs, it + 1, log, FinalResponseOf(result.content))
          ELSE IF NoToolUseBlocks(blocks)
          THEN AloneReturns(a, msgs, it + 1, log, NoToolUseText)
          ELSE LoopAlone(a, Tail(rs),
                         msgs \o <<AssistantMessage(content),
                                   ToolResultsMessage(ResultsOf(blocks))>>,
                         it + 1, log \o EntriesOf(blocks))

\* The handler of one invocation that runs alone.
RunAlone(a, rs) ==
  IF Len(BuildTools(a.availableTools)) = 0
  THEN [messages |-> <<>>, iteration |-> 0, toolCallLog |-> <<>>,
        returned |-> NoValidToolsResult]
  ELSE LoopAlone(a, rs,
                 <<[role |-> "user", content |-> SingleContent(TextContent(a.prompt))]>>,
                 0, <<>>)

\* An invocation that waits for a response or has returned has what it
\* would have had alone, given the responses it was given.
SameAsAlone(f) ==
  f.pc \in {"awaiting", "done"} =>
    [messages |-> f.messages, iteration |-> f.iteration,
     toolCallLog |-> f.toolCallLog, returned |-> f.returned]
      = RunAlone(f.args, f.responses)

(***************************************************************************)
(* C18: two invocations interleaved at their round-trip suspension points  *)
(* share no mutable state: the history, the iteration counter, the audit   *)
(* trail and the returned response of each are what they would be had it   *)
(* run alone with the same provider responses.                             *)
(***************************************************************************)
C18_InvocationsAreIndependent ==
  /\ SameAsAlone(Frame)
  /\ peer.pc \in {"awaiting", "done"} => SameAsAlone(peer)

\* Both invocations have run tools and both wait for their second
\* response: neither ran from start to end without the other in between.
C18_Witness ==
  /\ pc = "awaiting"
  /\ peer.pc = "awaiting"
  /\ Len(requests) = 2
  /\ Len(peer.requests) = 2
  /\ Len(toolCallLog) = 2
  /\ Len(peer.toolCallLog) = 1
  /\ args.prompt # peer.args.prompt

(***************************************************************************)
(* The resources server (createServer).  Strings that are encoded and      *)
(* decoded are sequences of characters.                                    *)
(***************************************************************************)
DigitChars == <<"0", "1", "2", "3", "4", "5", "6", "7", "8", "9">>

IsDigit(c) == \E d \in 1..10 : DigitChars[d] = c

DigitValue(c) == (CHOOSE d \in 1..10 : DigitChars[d] = c) - 1

\* The code of a character and the character of a code; the server only
\* ever encodes decimal digits, any other byte decodes to a character that
\* is no digit.
CharCodeOfZero == 48

charCodeAt(c) == CharCodeOfZero + DigitValue(c)

fromCharCode(b) ==
  IF b >= CharCodeOfZero /\ b < CharCodeOfZero + 10
  THEN DigitChars[b - CharCodeOfZero + 1]
  ELSE "?"

\* n.toString() of an integer that is not negative.
RECURSIVE toString(_)
toString(n) ==
  IF n < 10 THEN <<DigitChars[n + 1]>>
  ELSE Append(toString(n \div 10), DigitChars[(n % 10) + 1])

Base64Alphabet ==
  <<"A", "B", "C", "D", "E", "F", "G", "H", "I", "J", "K", "L", "M",
    "N", "O", "P", "Q", "R", "S", "T", "U", "V", "W", "X", "Y", "Z",
    "a", "b", "c", "d", "e", "f", "g", "h", "i", "j", "k", "l", "m",
    "n", "o", "p", "q", "r", "s", "t", "u", "v", "w", "x", "y", "z",
    "0", "1", "2", "3", "4", "5", "6", "7", "8", "9", "+", "/">>

Base64Char(sextet) == Base64Alphabet[sextet + 1]

Base64Value(c) == (CHOOSE i \in 1..64 : Base64Alphabet[i] = c) - 1

\* The base64 text of a sequence of bytes.
RECURSIVE EncodeBytes(_)
EncodeBytes(bs) ==
  IF bs = <<>> THEN <<>>
  ELSE IF Len(bs) = 1
  THEN <<Base64Char(bs[1] \div 4), Base64Char((bs[1] % 4) * 16), "=", "=">>
  ELSE IF Len(bs) = 2
  THEN <<Base64Char(bs[1] \div 4),
         Base64Char((bs[1] % 4) * 16 + bs[2] \div 16),
         Base64Char((bs[2] % 16) * 4), "=">>
  ELSE <<Base64Char(bs[1] \div 4),
         Base64Char((bs[1] % 4) * 16 + bs[2] \div 16),
         Base64Char((bs[2] % 16) * 4 + bs[3] \div 64),
         Base64Char(bs[3] % 64)>> \o EncodeBytes(SubSeq(bs, 4, Len(bs)))

\* The bytes of a sequence of base64 values.
RECURSIVE DecodeSextets(_)
DecodeSextets(q) ==
  IF Len(q) < 2 THEN <<>>
  ELSE IF Len(q) = 2
  THEN <<q[1] * 4 + q[2] \div 16>>
  ELSE IF Len(q) = 3
  THEN <<q[1] * 4 + q[2] \div 16, (q[2] % 16) * 16 + q[3] \div 4>>
  ELSE <<q[1] * 4 + q[2] \div 16, (q[2] % 16) * 16 + q[3] \div 4,
         (q[3] % 4) * 64 + q[4]>> \o DecodeSextets(SubSeq(q, 5, Len(q)))

\* btoa(s)
btoa(s) == EncodeBytes([i \in 1..Len(s) |-> charCodeAt(s[i])])

\* atob(s), for s in the base64 alphabet with its padding.
atob(s) ==
  LET data == SelectSeq(s, LAMBDA c : c # "=")
      bytes == DecodeSextets([i \in 1..Len(data) |-> Base64Value(data[i])])
  IN [i \in 1..Len(bytes) |-> fromCharCode(bytes[i])]

\* The value of the digits s starts with.
RECURSIVE LeadingDigits(_, _)
LeadingDigits(s, acc) ==
  IF s = <<>> \/ ~IsDigit(Head(s)) THEN acc
  ELSE LeadingDigits(Tail(s), acc * 10 + DigitValue(Head(s)))

\* parseInt(s, 10): NaN unless s starts with a digit.
parseInt(s) ==
  IF s = <<>> \/ ~IsDigit(Head(s)) THEN NaN ELSE Num(LeadingDigits(s, 0))

\* Array.from({ length: 100 }, ...)
RESOURCE_COUNT == 100

PAGE_SIZE == 10

\* buffer.toString("base64") of the text of a blob.
Base64Of(text) == [encoding |-> "base64", of |-> text]

\* The callback of Array.from at index i (from 0).
ResourceAt(i) ==
  LET uri == "test://static/resource/" \o ToString(i + 1)
  IN IF i % 2 = 0
     THEN [uri |-> uri, name |-> "Resource " \o ToString(i + 1),
           mimeType |-> "text/plain",
           text |-> "Resource " \o ToString(i + 1) \o ": This is a plaintext resource"]
     ELSE [uri |-> uri, name |-> "Resource " \o ToString(i + 1),
           mimeType |-> "application/octet-stream",
           blob |-> Base64Of("Resource " \o ToString(i + 1) \o ": This is a base64 blob")]

ALL_RESOURCES == [k \in 1..RESOURCE_COUNT |-> ResourceAt(k - 1)]

\* array.slice(from, to) for 0 <= from.
slice(array, from, to) ==
  IF from >= to \/ from >= Len(array) THEN <<>>
  ELSE SubSeq(array, from + 1, IF to < Len(array) THEN to ELSE Len(array))

Min(a, b) == IF a < b THEN a ELSE b

\* The next cursor that is also given with the last page.
HasNextPageInclusive(endIndex) == endIndex <= Len(ALL_RESOURCES)

\* endIndex < ALL_RESOURCES.length
HasNextPage(endIndex) == endIndex < Len(ALL_RESOURCES)

\* The handler of resources/list.
ListResources(c) ==
  LET decodedCursor == IF c.t = "string" /\ c.chars # <<>>
                       THEN parseInt(atob(c.chars))
                       ELSE NaN
      startIndex == IF ~isNaN(decodedCursor) THEN decodedCursor.n ELSE 0
      endIndex == Min(startIndex + PAGE_SIZE, Len(ALL_RESOURCES))
  IN [resources |-> slice(ALL_RESOURCES, startIndex, endIndex),
      nextCursor |-> IF HasNextPage(endIndex)
                     THEN CursorOf(btoa(toString(endIndex)))
                     ELSE NoCursor]

\* subscriptions.push(uri), were subscriptions an array.
SetAddAsPush(set, uri) == Append(set, uri)

\* set.add(uri)
SetAdd(set, uri) ==
  IF \E i \in 1..Len(set) : set[i] = uri THEN set ELSE Append(set, uri)

\* set.delete(uri)
SetDelete(set, uri) == SelectSeq(set, LAMBDA u : u # uri)

\* The notification of one subscribed URI.
ResourceUpdated(uri) ==
  [method |-> "notifications/resources/updated", params |-> [uri |-> uri]]

\* The notifications the model lets the server send.
MaxNotifications == 3

\* The client lists without a cursor.
ListFirst ==
  /\ LET page == ListResources(NoCursor)
     IN /\ pages' = <<page>>
        /\ cursor' = page.nextCursor
  /\ UNCHANGED <<subscriptions, subsUpdateInterval, notifications, lastOperation>>
  /\ UNCHANGED <<pc, args, tools, messages, iteration, finalResponse, toolCallLog,
                 toolUseBlocks, toolResults, requests, responses, returned, peer>>

\* The client passes the nextCursor it was given.
ListNext ==
  /\ pages # <<>>
  /\ cursor # NoCursor
  /\ LET page == ListResources(cursor)
     IN /\ pages' = Append(pages, page)
        /\ cursor' = page.nextCursor
  /\ UNCHANGED <<subscriptions, subsUpdateInterval, notifications, lastOperation>>
  /\ UNCHANGED <<pc, args, tools, messages, iteration, finalResponse, toolCallLog,
                 toolUseBlocks, toolResults, requests, responses, returned, peer>>

\* The handler of resources/subscribe.
Subscribe ==
  /\ \E uri \in URIs :
       /\ subscriptions' = SetAdd(subscriptions, uri)
       /\ lastOperation' = [lastOperation EXCEPT ![uri] = "subscribe"]
  /\ UNCHANGED <<subsUpdateInterval, notifications, cursor, pages>>
  /\ UNCHANGED <<pc, args, tools, messages, iteration, finalResponse, toolCallLog,
                 toolUseBlocks, toolResults, requests, responses, returned, peer>>

\* The handler of resources/unsubscribe.
Unsubscribe ==
  /\ \E uri \in URIs :
       /\ subscriptions' = SetDelete(subscriptions, uri)
       /\ lastOperation' = [lastOperation EXCEPT ![uri] = "unsubscribe"]
  /\ UNCHANGED <<subsUpdateInterval, notifications, cursor, pages>>
  /\ UNCHANGED <<pc, args, tools, messages, iteration, finalResponse, toolCallLog,
                 toolUseBlocks, toolResults, requests, responses, returned, peer>>

\* The callback of setInterval: one notification for each element of
\* subscriptions, in the order of the Set.
Tick ==
  /\ subsUpdateInterval = "set"
  /\ Len(notifications) + Len(subscriptions) <= MaxNotifications
  /\ notifications' =
       notifications \o [i \in 1..Len(subscriptions) |-> ResourceUpdated(subscriptions[i])]
  /\ UNCHANGED <<subscriptions, subsUpdateInterval, lastOperation, cursor, pages>>
  /\ UNCHANGED <<pc, args, tools, messages, iteration, finalResponse, toolCallLog,
                 toolUseBlocks, toolResults, requests, responses, returned, peer>>

\* cleanup(): the timer is cleared.
Cleanup ==
  /\ subsUpdateInterval' = "cleared"
  /\ UNCHANGED <<subscriptions, notifications, lastOperation, cursor, pages>>
  /\ UNCHANGED <<pc, args, tools, messages, iteration, finalResponse, toolCallLog,
                 toolUseBlocks, toolResults, requests, responses, returned, peer>>

ResourcesNext ==
  \/ ListFirst
  \/ ListNext
  \/ Subscribe
  \/ Unsubscribe
  \/ Tick
  \/ Cleanup

\* The resources server with its client; the sampling tool is registered
\* and is not called.
ResourcesServerInit ==
  InitWith({a \in ArgumentSets : a.maxIterations = 1 /\ a.availableTools = <<"echo">>})

SpecResources == ResourcesServerInit /\ [][ResourcesNext]_vars

\* The URI of resource k.
StaticResourceURI(k) == "test://static/resource/" \o ToString(k)

(***************************************************************************)
(* C21: listing without a cursor and then with each nextCursor returned    *)
(* visits each of the 100 resources exactly once, in order, in pages of    *)
(* exactly 10 items, and ends because the page that holds the last         *)
(* resource, and only that page, has no nextCursor.                        *)
(***************************************************************************)
C21_TraversalVisitsEachOnce ==
  /\ Len(pages) * 10 <= 100
  /\ \A j \in 1..Len(pages) :
       /\ Len(pages[j].resources) = 10
       /\ \A i \in 1..10 :
            pages[j].resources[i].uri = StaticResourceURI((j - 1) * 10 + i)
       /\ pages[j].nextCursor = NoCursor <=> j * 10 = 100
  /\ pages # <<>> => cursor = pages[Len(pages)].nextCursor
  /\ (pages # <<>> /\ cursor = NoCursor) => Len(pages) * 10 = 100

\* The traversal has ended after ten pages; the first cursor was "MTA=",
\* the base64 text of "10".
C21_Witness ==
  /\ Len(pages) = 10
  /\ cursor = NoCursor
  /\ pages[1].nextCursor = CursorOf(<<"M", "T", "A", "=">>)
  /\ pages[10].resources[10].uri = "test://static/resource/100"

\* uri is an element of subscriptions.
IsSubscribed(uri) == \E i \in 1..Len(subscriptions) : subscriptions[i] = uri

\* The subscribed URIs are those whose last operation was subscribe.
C22_SubscribedIffLastSubscribe ==
  \A uri \in URIs : IsSubscribed(uri) <=> lastOperation[uri] = "subscribe"

\* A tick, and any step that sends, sends one notification for each URI
\* whose last operation was subscribe, and nothing else.
C22_TickSendsOnePerSubscribed ==
  (Tick \/ notifications' # notifications) =>
    LET sent == SubSeq(notifications', Len(notifications) + 1, Len(notifications'))
    IN /\ subsUpdateInterval = "set"
       /\ notifications' = notifications \o sent
       /\ \A i \in 1..Len(sent) : \E uri \in URIs : sent[i] = ResourceUpdated(uri)
       /\ \A uri \in URIs :
            Cardinality({i \in 1..Len(sent) : sent[i] = ResourceUpdated(uri)})
              = IF lastOperation[uri] = "subscribe" THEN 1 ELSE 0

(***************************************************************************)
(* C22: at every tick of the timer exactly one                             *)
(* notifications/resources/updated is sent for each URI subscribed at that *)
(* moment and none for any other: none for a URI never subscribed or last  *)
(* unsubscribed, and one, not two, for a URI subscribed twice.             *)
(***************************************************************************)
C22_OneNotificationPerSubscribedURI ==
  /\ []C22_SubscribedIffLastSubscribe
  /\ [][C22_TickSendsOnePerSubscribed]_vars

\* Two ticks: the first with resource 1 subscribed, the second with
\* resources 1 and 2; the unknown URI was unsubscribed last and resource 2
\* has been unsubscribed since.
C22_Witness ==
  /\ notifications = <<ResourceUpdated("test://static/resource/1"),
                       ResourceUpdated("test://static/resource/1"),
                       ResourceUpdated("test://static/resource/2")>>
  /\ lastOperation["test://nowhere"] = "unsubscribe"
  /\ lastOperation["test://static/resource/2"] = "unsubscribe"

\* The resources of the pages listed, with their numbers.
ListedNumbers == {k \in 1..RESOURCE_COUNT : k <= 10 * Len(pages)}

ListedResource(k) == pages[((k - 1) \div 10) + 1].resources[((k - 1) % 10) + 1]

IsPlaintext(r) == r.mimeType = "text/plain" /\ "text" \in DOMAIN r

IsBlob(r) == r.mimeType = "application/octet-stream" /\ "blob" \in DOMAIN r

(***************************************************************************)
(* C23: for every k in 1..100, test://static/resource/k is a plaintext     *)
(* resource (text/plain, text) when k is even and a binary blob resource   *)
(* (application/octet-stream, base64 blob) when k is odd.                  *)
(***************************************************************************)
C23_EvenIsPlaintextOddIsBlob ==
  \A k \in ListedNumbers :
    /\ ListedResource(k).uri = StaticResourceURI(k)
    /\ IF k % 2 = 0 THEN IsPlaintext(ListedResource(k)) ELSE IsBlob(ListedResource(k))

\* What the code builds: the odd numbers are the plaintext resources, the
\* even numbers the blobs.
OddIsPlaintextEvenIsBlob ==
  \A k \in ListedNumbers :
    /\ ListedResource(k).uri = StaticResourceURI(k)
    /\ IF k % 2 = 1 THEN IsPlaintext(ListedResource(k)) ELSE IsBlob(ListedResource(k))

\* The declarations are declarations of the catalog.
DeclaredFromCatalog == \A i \in 1..Len(tools) : IsCatalogKey(tools[i].name)

\* name is the name of one of the declarations sent to the provider.
IsDeclared(name) == \E i \in 1..Len(tools) : tools[i].name = name

(***************************************************************************)
(* C24: within one invocation only the tools of the filtered declaration   *)
(* set are available: a tool_use block that names a catalog tool the       *)
(* caller did not allow is not executed successfully but answered with a   *)
(* tool_result whose isError is true.                                      *)
(***************************************************************************)
C24_OnlyAllowedToolsRun ==
  DeclaredFromCatalog =>
    \A i \in 1..Len(toolResults) :
      (IsCatalogKey(toolUseBlocks[i].name) /\ ~IsDeclared(toolUseBlocks[i].name)) =>
        toolResults[i].isError

\* What the code does: the result of a tool call is that of the executor
\* on the name and the input, whatever the declarations.
ExecutorIgnoresAllowList ==
  \A i \in 1..Len(toolResults) :
    toolResults[i] = ToolResultOf(toolUseBlocks[i],
                       executeToolLocally(toolUseBlocks[i].name, toolUseBlocks[i].input))

\* Every response so far asked for tools and carried a tool_use block.
AllAskedForTools == \A r \in 1..Len(responses) : AsksForTools(responses[r])

\* The invocation returned its text and the final answer in it is the
\* placeholder.
PlaceholderReturned ==
  /\ pc = "done"
  /\ ~returned.isError
  /\ finalResponse = ReachedMaximumText(N)

(***************************************************************************)
(* C25: the 'Reached maximum iterations' placeholder is the final answer   *)
(* if and only if N round trips were sent and every one came back as       *)
(* toolUse with at least one tool_use block; a response with another stop  *)
(* reason, whatever its text (an empty text on the last iteration          *)
(* included), never gives the placeholder.  Stated for N >= 1 and          *)
(* declarations of the catalog.                                            *)
(***************************************************************************)
C25_PlaceholderIffExhausted ==
  (pc = "done" /\ ~returned.isError /\ N >= 1 /\ DeclaredFromCatalog) =>
    (PlaceholderReturned <=>
       (Len(requests) = N /\ Len(responses) = N /\ AllAskedForTools))

\* What the code does: the placeholder is the answer exactly when the
\* counter has reached N and the answer set in the loop, if any, is the
\* empty string.
PlaceholderIffNoAnswerText ==
  (pc = "done" /\ ~returned.isError) =>
    (PlaceholderReturned <=>
       /\ iteration >= N
       /\ \/ Len(responses) = 0
          \/ AllAskedForTools
          \/ /\ ~StopsForToolUse(responses[Len(responses)])
             /\ FinalResponseOf(responses[Len(responses)].content) = "")

\* The turns of a history alternate from the caller's prompt on.
TurnsAlternate(history) ==
  /\ history[1] = [role |-> "user", content |-> SingleContent(TextContent(args.prompt))]
  /\ \A j \in 1..Len(history) :
       history[j].role = IF j % 2 = 1 THEN "user" ELSE "assistant"

\* Every tool_use block of an assistant turn has a tool_result of its
\* identifier in the turn that follows.
ToolUsesAreAnswered(history) ==
  \A j \in 1..Len(history) :
    history[j].role = "assistant" =>
      /\ j < Len(history)
      /\ \A k \in 1..Len(history[j].content.blocks) :
           history[j].content.blocks[k].type = "tool_use" =>
             \E m \in 1..Len(history[j + 1].content.blocks) :
               /\ history[j + 1].content.blocks[m].type = "tool_result"
               /\ history[j + 1].content.blocks[m].toolUseId
                    = history[j].content.blocks[k].id

(***************************************************************************)
(* C26: the history sent on round trip i has exactly 2i-1 turns: the       *)
(* caller's prompt first, then assistant and user turns in strict          *)
(* alternation, a user turn last; it extends the history of round trip i-1 *)
(* by appending only, and every tool_use block in it is answered by a      *)
(* tool_result in the user turn that follows.                              *)
(***************************************************************************)
C26_HistoryShape ==
  \A i \in 1..Len(requests) :
    LET history == requests[i].messages
    IN /\ Len(history) = 2 * i - 1
       /\ TurnsAlternate(history)
       /\ history[Len(history)].role = "user"
       /\ i > 1 => SubSeq(history, 1, 2 * i - 3) = requests[i - 1].messages
       /\ ToolUsesAreAnswered(history)

\* The third round trip has been sent: five turns, the second with two
\* tool_use blocks.
C26_Witness ==
  /\ Len(requests) = 3
  /\ Len(requests[3].messages) = 5
  /\ Len(FilterToolUse(requests[3].messages[2].content.blocks)) = 2
  /\ Len(requests[3].messages[3].content.blocks) = 2

(***************************************************************************)
(* C27: with maxIterations <= 0 and at least one valid tool name no round  *)
(* trip is sent and the invocation returns normally, not as an error,      *)
(* reporting 0 iterations, an empty audit trail and the 'Reached maximum   *)
(* iterations' placeholder as final answer.                                *)
(***************************************************************************)
C27_NoIterationsReturnsPlaceholder ==
  (N <= 0 /\ Len(tools) > 0) =>
    /\ Len(requests) = 0
    /\ pc \in {"loop", "afterLoop", "done"}
    /\ toolCallLog = <<>>
    /\ pc = "done" =>
         /\ ~returned.isError
         /\ iteration = 0
         /\ ReturnedText = "Agentic sampling completed in 0 iteration(s).\n"
                           \o "\nFinal response:\n"
                           \o "[Reached maximum iterations (" \o ToString(N)
                           \o ") without final response]"

\* maxIterations = -1 with the default tools: the handler has returned.
C27_Witness ==
  /\ pc = "done"
  /\ N = 0 - 1
  /\ args.availableTools = <<"echo", "add">>
  /\ ReturnedText = "Agentic sampling completed in 0 iteration(s).\n"
                    \o "\nFinal response:\n"
                    \o "[Reached maximum iterations (-1) without final response]"
====
